---- MODULE Spec2Model ----
(***************************************************************************)
(* A model of proc_cpuinfo (src/src/lib.rs): CpuInfo owns the text of a    *)
(* /proc/cpuinfo file, cpus() splits it into blocks, Cpu::from_str turns a *)
(* block into a key/value map, and the typed accessors parse single        *)
(* values.  A string is a sequence of one-character strings; an Option is  *)
(* a sequence of length 0 (None) or 1 (Some); a usize is a little-endian   *)
(* sequence of eight base-256 limbs, so that arithmetic keeps its 64 bits. *)
(***************************************************************************)
EXTENDS Integers, Sequences, FiniteSets, TLC

VARIABLES
    text,      \* CpuInfo.text
    iter,      \* the iterator returned by the last cpus()/iter() call
    yielded,   \* the blocks that iterator has yielded so far, in order
    cur,       \* the Cpu the caller holds (Option): last yielded or returned by cpu()
    raw,       \* ghost: the segment of text that cur was parsed from
    op,        \* name of the last operation called
    arg,       \* its argument (index or key, always as an Option)
    ret,       \* its return value
    outcome,   \* "returned", or "panicked" once a call has aborted
    input      \* ghost: how Init assembled the text

vars == <<text, iter, yielded, cur, raw, op, arg, ret, outcome, input>>

None == <<>>
Some(v) == <<v>>

----------------------------------------------------------------------------
(* Characters and the std string operations the library calls. *)

NL == "\n"
Digits == <<"0", "1", "2", "3", "4", "5", "6", "7", "8", "9">>
HexLower == <<"a", "b", "c", "d", "e", "f">>
HexUpper == <<"A", "B", "C", "D", "E", "F">>

\* char::is_whitespace, on the characters that occur in the texts
IsWhitespace(c) == c \in {" ", "\t", "\n", "\r", "\f"}

Drop(s, n) == SubSeq(s, n + 1, Len(s))

StartsWith(s, p) == Len(p) <= Len(s) /\ SubSeq(s, 1, Len(p)) = p

EndsWith(s, p) == Len(p) <= Len(s) /\ SubSeq(s, Len(s) - Len(p) + 1, Len(s)) = p

\* str::find: the index of the first occurrence of pat in s, 0 when there is none
Find(s, pat) ==
    LET hits == {i \in 1..(Len(s) - Len(pat) + 1) : SubSeq(s, i, i + Len(pat) - 1) = pat}
    IN  IF hits = {} THEN 0 ELSE CHOOSE i \in hits : \A j \in hits : i <= j

\* str::split with a non-empty pattern: every piece, empty ones included
RECURSIVE Split(_, _)
Split(s, pat) ==
    LET i == Find(s, pat)
    IN  IF i = 0 THEN <<s>>
        ELSE <<SubSeq(s, 1, i - 1)>> \o Split(Drop(s, i - 1 + Len(pat)), pat)

\* str::split_once: the text before and after the first occurrence of pat
SplitOnce(s, pat) ==
    LET i == Find(s, pat)
    IN  IF i = 0 THEN None
        ELSE Some(<<SubSeq(s, 1, i - 1), Drop(s, i - 1 + Len(pat))>>)

StripCR(s) == IF EndsWith(s, <<"\r">>) THEN SubSeq(s, 1, Len(s) - 1) ELSE s

\* str::lines: pieces ended by "\n" (a final "\r" dropped), no empty last piece
RECURSIVE Lines(_)
Lines(s) ==
    IF s = <<>> THEN <<>>
    ELSE LET i == Find(s, <<NL>>)
         IN  IF i = 0 THEN <<StripCR(s)>>
             ELSE <<StripCR(SubSeq(s, 1, i - 1))>> \o Lines(Drop(s, i))

RECURSIVE TrimStart(_)
TrimStart(s) ==
    IF s # <<>> /\ IsWhitespace(Head(s)) THEN TrimStart(Tail(s)) ELSE s

RECURSIVE TrimEnd(_)
TrimEnd(s) ==
    IF s # <<>> /\ IsWhitespace(s[Len(s)]) THEN TrimEnd(SubSeq(s, 1, Len(s) - 1)) ELSE s

\* str::trim
Trim(s) == TrimEnd(TrimStart(s))

\* str::trim_start_matches: removes the prefix as often as it repeats
RECURSIVE TrimStartMatches(_, _)
TrimStartMatches(s, p) ==
    IF p # <<>> /\ StartsWith(s, p) THEN TrimStartMatches(Drop(s, Len(p)), p) ELSE s

\* str::trim_end_matches: removes the suffix as often as it repeats
RECURSIVE TrimEndMatches(_, _)
TrimEndMatches(s, p) ==
    IF p # <<>> /\ EndsWith(s, p) THEN TrimEndMatches(SubSeq(s, 1, Len(s) - Len(p)), p) ELSE s

RECURSIVE Concat(_)
Concat(ss) == IF ss = <<>> THEN <<>> ELSE Head(ss) \o Concat(Tail(ss))

RECURSIVE Repeat(_, _)
Repeat(s, n) == IF n = 0 THEN <<>> ELSE s \o Repeat(s, n - 1)

----------------------------------------------------------------------------
(* Machine integers.  A usize is USIZE_BYTES limbs of base LIMB, least      *)
(* significant first; a "wide" value has twice as many limbs and holds any  *)
(* exact product or sum of two usize values.                                *)

LIMB == 256
USIZE_BYTES == 8

Zeros(n) == [i \in 1..n |-> 0]

\* the limbs of a small non-negative number n (n < 2^31)
RECURSIVE NatLimbs(_, _)
NatLimbs(n, len) ==
    IF len = 0 THEN <<>> ELSE <<n % LIMB>> \o NatLimbs(n \div LIMB, len - 1)

Usize(n) == NatLimbs(n, USIZE_BYTES)

Widen(a) == a \o Zeros(USIZE_BYTES)

Low(w) == SubSeq(w, 1, USIZE_BYTES)

\* carry propagation over column sums
RECURSIVE Carry(_, _)
Carry(cols, c) ==
    IF cols = <<>> THEN <<>>
    ELSE LET t == Head(cols) + c
         IN  <<t % LIMB>> \o Carry(Tail(cols), t \div LIMB)

RECURSIVE ColSum(_, _, _, _)
ColSum(a, b, k, i) ==
    IF i > Len(a) THEN 0
    ELSE (IF k + 1 - i \in 1..Len(b) THEN a[i] * b[k + 1 - i] ELSE 0) + ColSum(a, b, k, i + 1)

\* the exact product of two usize values, as a wide value
MulWide(a, b) == Carry([k \in 1..(2 * USIZE_BYTES) |-> ColSum(a, b, k, 1)], 0)

\* a <= b for two values with the same number of limbs
RECURSIVE Leq(_, _)
Leq(a, b) ==
    IF a = <<>> THEN TRUE
    ELSE LET n == Len(a)
         IN  IF a[n] # b[n] THEN a[n] < b[n]
             ELSE Leq(SubSeq(a, 1, n - 1), SubSeq(b, 1, n - 1))

\* usize::MAX and u8::MAX
USIZE_MAX == [i \in 1..USIZE_BYTES |-> LIMB - 1]
U8_MAX == Usize(LIMB - 1)

\* a * m + c for a small multiplier m and a small addend c: the limbs of the
\* result, followed by the carry out of the top limb
RECURSIVE MulAddSmall(_, _, _)
MulAddSmall(a, m, c) ==
    IF a = <<>> THEN <<c>>
    ELSE LET t == Head(a) * m + c
         IN  <<t % LIMB>> \o MulAddSmall(Tail(a), m, t \div LIMB)

\* checked_mul / checked_add of an unsigned type whose largest value is max,
\* by a small operand (a radix, a digit)
checked_mul(a, m, max) ==
    LET w == MulAddSmall(a, m, 0)
    IN  IF w[USIZE_BYTES + 1] = 0 /\ Leq(Low(w), max) THEN Some(Low(w)) ELSE None

checked_add(a, d, max) ==
    LET w == MulAddSmall(a, 1, d)
    IN  IF w[USIZE_BYTES + 1] = 0 /\ Leq(Low(w), max) THEN Some(Low(w)) ELSE None

\* usize::checked_mul and usize::wrapping_mul of two usize values
usize_checked_mul(a, b) ==
    LET w == MulWide(a, b) IN IF Leq(w, Widen(USIZE_MAX)) THEN Some(Low(w)) ELSE None

wrapping_mul(a, b) == Low(MulWide(a, b))

IndexOf(seq, c) ==
    LET hits == {i \in 1..Len(seq) : seq[i] = c}
    IN  IF hits = {} THEN 0 ELSE CHOOSE i \in hits : TRUE

\* char::to_digit
to_digit(c, radix) ==
    LET v == IF IndexOf(Digits, c) > 0 THEN IndexOf(Digits, c) - 1
             ELSE IF IndexOf(HexLower, c) > 0 THEN IndexOf(HexLower, c) + 9
             ELSE IF IndexOf(HexUpper, c) > 0 THEN IndexOf(HexUpper, c) + 9
             ELSE radix
    IN  IF v < radix THEN Some(v) ELSE None

\* the digit loop of from_str_radix: result = result * radix + digit, checked
RECURSIVE ParseDigits(_, _, _, _)
ParseDigits(s, radix, max, acc) ==
    IF s = <<>> THEN Some(acc)
    ELSE LET d == to_digit(Head(s), radix)
         IN  IF d = None THEN None
             ELSE LET m == checked_mul(acc, radix, max)
                  IN  IF m = None THEN None
                      ELSE LET n == checked_add(m[1], d[1], max)
                           IN  IF n = None THEN None
                               ELSE ParseDigits(Tail(s), radix, max, n[1])

\* <unsigned>::from_str_radix(..).ok(): one leading "+" is accepted, "-" is not
from_str_radix(s, radix, max) ==
    IF s = <<>> THEN None
    ELSE IF s = <<"+">> \/ s = <<"-">> THEN None
    ELSE ParseDigits(IF Head(s) = "+" THEN Tail(s) ELSE s, radix, max, Usize(0))

\* s.parse::<usize>().ok() and s.parse::<u8>().ok()
parse_usize(s) == from_str_radix(s, 10, USIZE_MAX)

\* cpu family parsed as a usize instead of a u8
parse_u8_AsUsize(s) == from_str_radix(s, 10, USIZE_MAX)

parse_u8(s) == from_str_radix(s, 10, U8_MAX)

----------------------------------------------------------------------------
(* Field names. *)

K_processor == <<"p","r","o","c","e","s","s","o","r">>
K_vendor_id == <<"v","e","n","d","o","r","_","i","d">>
K_cpu_family == <<"c","p","u"," ","f","a","m","i","l","y">>
K_model == <<"m","o","d","e","l">>
K_model_name == <<"m","o","d","e","l"," ","n","a","m","e">>
K_stepping == <<"s","t","e","p","p","i","n","g">>
K_microcode == <<"m","i","c","r","o","c","o","d","e">>
K_cache_size == <<"c","a","c","h","e"," ","s","i","z","e">>
K_physical_id == <<"p","h","y","s","i","c","a","l"," ","i","d">>
K_siblings == <<"s","i","b","l","i","n","g","s">>
K_core_id == <<"c","o","r","e"," ","i","d">>
K_cpu_cores == <<"c","p","u"," ","c","o","r","e","s">>
K_apicid == <<"a","p","i","c","i","d">>
K_initial_apicid == <<"i","n","i","t","i","a","l"," ","a","p","i","c","i","d">>
K_fpu == <<"f","p","u">>
K_fpu_exception == <<"f","p","u","_","e","x","c","e","p","t","i","o","n">>
K_cpuid_level == <<"c","p","u","i","d"," ","l","e","v","e","l">>
K_wp == <<"w","p">>
K_flags == <<"f","l","a","g","s">>
K_vmx_flags == <<"v","m","x"," ","f","l","a","g","s">>
K_bugs == <<"b","u","g","s">>
K_clflush_size == <<"c","l","f","l","u","s","h"," ","s","i","z","e">>
K_cache_alignment == <<"c","a","c","h","e","_","a","l","i","g","n","m","e","n","t">>
K_address_sizes == <<"a","d","d","r","e","s","s"," ","s","i","z","e","s">>
K_power_management == <<"p","o","w","e","r"," ","m","a","n","a","g","e","m","e","n","t">>

S_yes == <<"y","e","s">>
S_0x == <<"0","x">>
S_B == <<"B">>
S_KB == <<"K","B">>
S_MB == <<"M","B">>
S_GB == <<"G","B">>
S_bits_physical == <<" ","b","i","t","s"," ","p","h","y","s","i","c","a","l">>
S_bits_virtual == <<" ","b","i","t","s"," ","v","i","r","t","u","a","l">>

KIB == Usize(1024)
MIB == wrapping_mul(Usize(1024), KIB)
GIB == wrapping_mul(Usize(1024), MIB)

----------------------------------------------------------------------------
(* Cpu: the key/value map of one block. *)

\* HashMap::insert: a later pair replaces an earlier one with the same key
\* an insertion that keeps the value the key already has
Insert_KeepFirst(m, k, v) ==
    [x \in (DOMAIN m) \cup {k} |-> IF x \in DOMAIN m THEN m[x] ELSE v]

Insert(m, k, v) == [x \in (DOMAIN m) \cup {k} |-> IF x = k THEN v ELSE m[x]]

\* Iterator::collect into a HashMap, in iteration order
RECURSIVE Collect(_, _)
Collect(pairs, m) ==
    IF pairs = <<>> THEN m
    ELSE Collect(Tail(pairs), Insert(m, Head(pairs)[1], Head(pairs)[2]))

EmptyMap == [x \in {} |-> <<>>]

\* from_str() without the trimming of keys and values
RECURSIVE KeyValues_Untrimmed(_)
KeyValues_Untrimmed(ls) ==
    IF ls = <<>> THEN <<>>
    ELSE LET kv == SplitOnce(Head(ls), <<":">>)
         IN  (IF kv = None THEN <<>> ELSE << <<kv[1][1], kv[1][2]>> >>)
             \o KeyValues_Untrimmed(Tail(ls))

\* from_str() taking a line without a colon for a key with an empty value
RECURSIVE KeyValues_ColonOptional(_)
KeyValues_ColonOptional(ls) ==
    IF ls = <<>> THEN <<>>
    ELSE LET kv == SplitOnce(Head(ls), <<":">>)
         IN  (IF kv = None THEN << <<Trim(Head(ls)), <<>>>> >>
              ELSE << <<Trim(kv[1][1]), Trim(kv[1][2])>> >>)
             \o KeyValues_ColonOptional(Tail(ls))

\* the lines that have a colon, each split at its first colon and trimmed
RECURSIVE KeyValues(_)
KeyValues(ls) ==
    IF ls = <<>> THEN <<>>
    ELSE LET kv == SplitOnce(Head(ls), <<":">>)
         IN  (IF kv = None THEN <<>> ELSE << <<Trim(kv[1][1]), Trim(kv[1][2])>> >>)
             \o KeyValues(Tail(ls))

Cpu_from_str(s) == Collect(KeyValues(Lines(s)), EmptyMap)

\* get() reporting an empty value as a missing one
get_EmptyIsAbsent(c, key) == IF key \in DOMAIN c /\ c[key] # <<>> THEN Some(c[key]) ELSE None

get(c, key) == IF key \in DOMAIN c THEN Some(c[key]) ELSE None

\* Option::and_then(|s| s.parse().ok())
AndThenParseUsize(o) == IF o = None THEN None ELSE parse_usize(o[1])

processor(c) == AndThenParseUsize(get(c, K_processor))
vendor_id(c) == get(c, K_vendor_id)
cpu_family(c) == LET o == get(c, K_cpu_family) IN IF o = None THEN None ELSE parse_u8(o[1])
model(c) == AndThenParseUsize(get(c, K_model))
model_name(c) == get(c, K_model_name)
stepping(c) == AndThenParseUsize(get(c, K_stepping))

\* microcode() parsing the digits in base 10
microcode_Decimal(c) ==
    LET o == get(c, K_microcode)
    IN  IF o = None THEN None
        ELSE from_str_radix(TrimStartMatches(o[1], S_0x), 10, USIZE_MAX)

\* microcode() with str::strip_prefix: one "0x" removed, and required
microcode_StripPrefix(c) ==
    LET o == get(c, K_microcode)
    IN  IF o = None THEN None
        ELSE IF ~StartsWith(o[1], S_0x) THEN None
        ELSE from_str_radix(Drop(o[1], 2), 16, USIZE_MAX)

microcode(c) ==
    LET o == get(c, K_microcode)
    IN  IF o = None THEN None
        ELSE from_str_radix(TrimStartMatches(o[1], S_0x), 16, USIZE_MAX)

\* value * unit: an overflowing product aborts when the build checks overflow
\* and wraps when it does not.  The result is <<outcome, return value>>.
MulOutcome(value, unit, overflow_checks) ==
    IF usize_checked_mul(value, unit) = None /\ overflow_checks
    THEN <<"panicked", None>>
    ELSE <<"returned", Some(wrapping_mul(value, unit))>>

\* cache_size: <<outcome, return value>>
cache_size(c, overflow_checks) ==
    LET o == get(c, K_cache_size)
    IN  IF o = None THEN <<"returned", None>>
        ELSE LET sp == SplitOnce(o[1], <<" ">>)
             IN  IF sp = None THEN <<"returned", parse_usize(o[1])>>
                 ELSE LET value == parse_usize(sp[1][1])
                          unit == sp[1][2]
                      IN  IF value = None THEN <<"returned", None>>
                          ELSE IF unit = S_B THEN <<"returned", Some(value[1])>>
                          ELSE IF unit = S_KB THEN MulOutcome(value[1], KIB, overflow_checks)
                          ELSE IF unit = S_MB THEN MulOutcome(value[1], MIB, overflow_checks)
                          ELSE IF unit = S_GB THEN MulOutcome(value[1], GIB, overflow_checks)
                          ELSE <<"returned", None>>

physical_id(c) == AndThenParseUsize(get(c, K_physical_id))
siblings(c) == AndThenParseUsize(get(c, K_siblings))
core_id(c) == AndThenParseUsize(get(c, K_core_id))
cpu_cores(c) == AndThenParseUsize(get(c, K_cpu_cores))
apicid(c) == AndThenParseUsize(get(c, K_apicid))
initial_apicid(c) == AndThenParseUsize(get(c, K_initial_apicid))

\* a stricter reading: anything but "yes" and "no" is absent
MapIsYes_YesOrNo(o) ==
    IF o = None THEN None
    ELSE IF o[1] = S_yes THEN Some(TRUE)
    ELSE IF o[1] = <<"n", "o">> THEN Some(FALSE)
    ELSE None

\* Option::map(|s| s == "yes")
MapIsYes(o) == IF o = None THEN None ELSE Some(o[1] = S_yes)

fpu(c) == MapIsYes(get(c, K_fpu))
fpu_exception(c) == MapIsYes(get(c, K_fpu_exception))
cpuid_level(c) == AndThenParseUsize(get(c, K_cpuid_level))
wp(c) == MapIsYes(get(c, K_wp))

\* the set made with str::split_whitespace: no empty member
SplitSet_Whitespace(o) ==
    IF o = None THEN {}
    ELSE LET parts == Split(o[1], <<" ">>) IN {parts[i] : i \in 1..Len(parts)} \ {<<>>}

\* map_or_else(HashSet::default, |s| s.split(' ').collect())
SplitSet(o) ==
    IF o = None THEN {}
    ELSE LET parts == Split(o[1], <<" ">>) IN {parts[i] : i \in 1..Len(parts)}

flags(c) == SplitSet(get(c, K_flags))
vmx_flags(c) == SplitSet(get(c, K_vmx_flags))
bugs(c) == SplitSet(get(c, K_bugs))

clflush_size(c) == AndThenParseUsize(get(c, K_clflush_size))
cache_alignment(c) == AndThenParseUsize(get(c, K_cache_alignment))

\* address_sizes() without the trimming of the two sides
address_sizes_Untrimmed(c) ==
    LET o == get(c, K_address_sizes)
        sp == IF o = None THEN None ELSE SplitOnce(o[1], <<",">>)
    IN  IF sp = None THEN None
        ELSE LET phy == parse_usize(TrimEndMatches(sp[1][1], S_bits_physical))
                 vir == parse_usize(TrimEndMatches(sp[1][2], S_bits_virtual))
             IN  IF phy = None THEN None
                 ELSE IF vir = None THEN None
                 ELSE Some(<<phy[1], vir[1]>>)

address_sizes(c) ==
    LET o == get(c, K_address_sizes)
        sp == IF o = None THEN None ELSE SplitOnce(o[1], <<",">>)
    IN  IF sp = None THEN None
        ELSE LET phy == parse_usize(TrimEndMatches(Trim(sp[1][1]), S_bits_physical))
                 vir == parse_usize(TrimEndMatches(Trim(sp[1][2]), S_bits_virtual))
             IN  IF phy = None THEN None
                 ELSE IF vir = None THEN None
                 ELSE Some(<<phy[1], vir[1]>>)

power_management(c) == get(c, K_power_management)

----------------------------------------------------------------------------
(* CpuInfo. *)

\* the pieces self.text.split("\n\n") goes through
Segments(t) == Split(t, <<NL, NL>>)

\* filter(|text| !text.is_empty())
RECURSIVE FilterNonEmpty(_)
FilterNonEmpty(segs) ==
    IF segs = <<>> THEN <<>>
    ELSE (IF Head(segs) # <<>> THEN <<Head(segs)>> ELSE <<>>) \o FilterNonEmpty(Tail(segs))

\* cpus() without its filter: empty pieces become blocks too
Blocks_Unfiltered(t) == Segments(t)

\* the pieces that cpus() parses, in the order it goes through them
Blocks(t) == FilterNonEmpty(Segments(t))

\* cpus(): the sequence the returned iterator yields, map(Cpu::from_str)
cpus(t) == LET bs == Blocks(t) IN [k \in 1..Len(bs) |-> Cpu_from_str(bs[k])]

\* filter_map(|cpu| cpu.processor().map(|processor| (processor, cpu)))
RECURSIVE WithProcessor(_)
WithProcessor(cs) ==
    IF cs = <<>> THEN <<>>
    ELSE (IF processor(Head(cs)) = None THEN <<>>
          ELSE << <<processor(Head(cs))[1], Head(cs)>> >>)
         \o WithProcessor(Tail(cs))

\* find_map(|(processor, cpu)| if processor == index { Some(cpu) } else { None })
RECURSIVE FindMap(_, _)
FindMap(pairs, index) ==
    IF pairs = <<>> THEN None
    ELSE IF Head(pairs)[1] = index THEN Some(Head(pairs)[2])
    ELSE FindMap(Tail(pairs), index)

\* cpu() indexing by position in the text instead of by processor field
cpu_ByPosition(t, index) ==
    LET cs == cpus(t)
        at == {k \in 1..Len(cs) : Usize(k - 1) = index}
    IN  IF at = {} THEN None ELSE Some(cs[CHOOSE k \in at : TRUE])

cpu(t, index) == FindMap(WithProcessor(cpus(t)), index)

----------------------------------------------------------------------------
(* The caller's operations.  Every call is made on a CpuInfo whose text is  *)
(* fixed by Init; accessors are called on the block the caller holds.       *)

NoIter == [pos |-> 0, done |-> FALSE]

Running == outcome = "returned"

\* cpus() going on where the last enumeration stopped
Cpus_Resume ==
    /\ Running
    /\ iter' = [pos |-> IF iter = NoIter THEN 1 ELSE iter.pos, done |-> FALSE]
    /\ yielded' = <<>>
    /\ op' = "cpus" /\ arg' = None /\ ret' = None
    /\ UNCHANGED <<text, cur, raw, outcome, input>>

\* let mut it = info.cpus()  (iter() is the same call); pos counts the blocks
\* the iterator is about to yield
Cpus ==
    /\ Running
    /\ iter' = [pos |-> 1, done |-> FALSE]
    /\ yielded' = <<>>
    /\ op' = "cpus" /\ arg' = None /\ ret' = None
    /\ UNCHANGED <<text, cur, raw, outcome, input>>

\* it.next(): the next block, parsed; None at the end of the text
IterNext ==
    /\ Running
    /\ iter # NoIter
    /\ LET cs == cpus(text)
       IN  IF iter.pos > Len(cs)
           THEN /\ iter' = [pos |-> iter.pos, done |-> TRUE]
                /\ ret' = None
                /\ UNCHANGED <<yielded, cur, raw>>
           ELSE /\ iter' = [pos |-> iter.pos + 1, done |-> FALSE]
                /\ ret' = Some(cs[iter.pos])
                /\ cur' = Some(cs[iter.pos])
                /\ raw' = Blocks(text)[iter.pos]
                /\ yielded' = Append(yielded, cs[iter.pos])
    /\ op' = "next" /\ arg' = None
    /\ UNCHANGED <<text, outcome, input>>

\* an accessor without failure modes, called on the block the caller holds
Call(name, r) ==
    /\ Running
    /\ cur # None
    /\ op' = name /\ arg' = None /\ ret' = r
    /\ UNCHANGED <<text, iter, yielded, cur, raw, outcome, input>>

Processor == Call("processor", processor(cur[1]))
VendorId == Call("vendor_id", vendor_id(cur[1]))
CpuFamily == Call("cpu_family", cpu_family(cur[1]))
Model == Call("model", model(cur[1]))
ModelName == Call("model_name", model_name(cur[1]))
Stepping == Call("stepping", stepping(cur[1]))
Microcode == Call("microcode", microcode(cur[1]))
PhysicalId == Call("physical_id", physical_id(cur[1]))
Siblings == Call("siblings", siblings(cur[1]))
CoreId == Call("core_id", core_id(cur[1]))
CpuCores == Call("cpu_cores", cpu_cores(cur[1]))
Apicid == Call("apicid", apicid(cur[1]))
InitialApicid == Call("initial_apicid", initial_apicid(cur[1]))
Fpu == Call("fpu", fpu(cur[1]))
FpuException == Call("fpu_exception", fpu_exception(cur[1]))
CpuidLevel == Call("cpuid_level", cpuid_level(cur[1]))
Wp == Call("wp", wp(cur[1]))
Flags == Call("flags", flags(cur[1]))
VmxFlags == Call("vmx_flags", vmx_flags(cur[1]))
Bugs == Call("bugs", bugs(cur[1]))
ClflushSize == Call("clflush_size", clflush_size(cur[1]))
CacheAlignment == Call("cache_alignment", cache_alignment(cur[1]))
AddressSizes == Call("address_sizes", address_sizes(cur[1]))
PowerManagement == Call("power_management", power_management(cur[1]))

\* cache_size(): may abort, depending on how the crate was built
CacheSize ==
    /\ Running
    /\ cur # None
    /\ \E overflow_checks \in BOOLEAN :
          LET r == cache_size(cur[1], overflow_checks)
          IN  outcome' = r[1] /\ ret' = r[2]
    /\ op' = "cache_size" /\ arg' = None
    /\ UNCHANGED <<text, iter, yielded, cur, raw, input>>

\* info.cpu(index)
CpuAt(index) ==
    /\ Running
    /\ op' = "cpu" /\ arg' = Some(Usize(index)) /\ ret' = cpu(text, Usize(index))
    /\ UNCHANGED <<text, iter, yielded, cur, raw, outcome, input>>

\* cpu.get(key)
Get(key) ==
    /\ Running
    /\ cur # None
    /\ op' = "get" /\ arg' = Some(key) /\ ret' = get(cur[1], key)
    /\ UNCHANGED <<text, iter, yielded, cur, raw, outcome, input>>

\* CpuInfo::from(t): nothing has been called yet
Construct(t, how) ==
    /\ text = t
    /\ iter = NoIter
    /\ yielded = <<>>
    /\ cur = None
    /\ raw = <<>>
    /\ op = "from" /\ arg = None /\ ret = None
    /\ outcome = "returned"
    /\ input = how

----------------------------------------------------------------------------
(* Texts of whole files: blocks of lines, one blank line between blocks,    *)
(* and some newline characters before the first and after the last block.   *)

MaxBlocks == 2
MaxPad == 1
MaxIndex == 2

L_proc0 == K_processor \o <<"\t", ":", " ", "0">>
L_proc1 == K_processor \o <<"\t", ":", " ", "1">>
L_procX == K_processor \o <<":", " ", "x">>
L_vendor == K_vendor_id \o <<"\t", ":", " ", "G">>
L_pm == K_power_management \o <<":">>

BlockPool ==
    { <<L_proc0, L_vendor>>, <<L_proc1, L_pm>>, <<L_proc1>>, <<L_procX, L_vendor>>, <<L_vendor>> }

\* all sequences of at most n members of S
RECURSIVE SeqsUpTo(_, _)
SeqsUpTo(S, n) ==
    IF n = 0 THEN {<<>>}
    ELSE LET shorter == SeqsUpTo(S, n - 1)
         IN  shorter \cup {Append(q, x) : q \in shorter, x \in S}

\* a block as it stands in the file: every line ended by a newline
RECURSIVE BlockText(_)
BlockText(ls) == IF ls = <<>> THEN <<>> ELSE Head(ls) \o <<NL>> \o BlockText(Tail(ls))

\* blocks with one blank line between them
RECURSIVE JoinBlocks(_)
JoinBlocks(bs) ==
    IF bs = <<>> THEN <<>>
    ELSE IF Len(bs) = 1 THEN BlockText(bs[1])
    ELSE BlockText(Head(bs)) \o <<NL>> \o JoinBlocks(Tail(bs))

FileText(bs, lead, trail) == Repeat(<<NL>>, lead) \o JoinBlocks(bs) \o Repeat(<<NL>>, trail)

Init ==
    \E bs \in SeqsUpTo(BlockPool, MaxBlocks), lead \in 0..MaxPad, trail \in 0..MaxPad :
        Construct(FileText(bs, lead, trail), [blocks |-> bs, lead |-> lead, trail |-> trail])

Next ==
    \/ Cpus
    \/ IterNext
    \/ \E index \in 0..MaxIndex : CpuAt(index)

Spec == Init /\ [][Next]_vars

(* Texts of one or more blocks with up to MaxNewlines newline characters    *)
(* before the first block and after the newline that ends the last one.     *)

MaxNewlines == 2

InitPad ==
    \E bs \in SeqsUpTo({<<L_proc0>>, <<L_vendor, L_pm>>}, MaxBlocks) \ {<<>>},
       lead \in 0..MaxNewlines, trail \in 0..MaxNewlines :
        Construct(FileText(bs, lead, trail), [blocks |-> bs, lead |-> lead, trail |-> trail])

SpecPad == InitPad /\ [][Cpus \/ IterNext]_vars

----------------------------------------------------------------------------
(* Texts of one block: a few lines, with and without a colon, with keys     *)
(* that repeat, padded keys and values, empty values and empty keys.        *)

MaxLines == 2

LinePool ==
    { <<>>,
      <<"k", ":", "v">>,
      <<"k", ":", " ", "w">>,
      <<" ", "k", "\t", ":">>,
      <<"k">>,
      <<"k", ":", "v", ":", "w">>,
      <<":", " ", "v">>,
      L_proc0,
      L_pm,
      L_vendor,
      K_vendor_id \o <<":">>,
      K_model_name \o <<" ", ":", " ", "v", " ">> }

InitLines ==
    \E ls \in SeqsUpTo(LinePool, MaxLines) \ {<<>>} :
        Construct(FileText(<<ls>>, 0, 0), [blocks |-> <<ls>>, lead |-> 0, trail |-> 0])

NextLines ==
    \/ Cpus
    \/ IterNext
    \/ \E index \in 0..MaxIndex : CpuAt(index)
    \/ \E key \in { <<"k">>, <<>>, <<"x">>, K_vendor_id, K_model_name, K_power_management } :
            Get(key)
    \/ VendorId
    \/ ModelName
    \/ PowerManagement

SpecLines == InitLines /\ [][NextLines]_vars

----------------------------------------------------------------------------
(* Texts of one block of one line, "key<TAB>: value", with the value put    *)
(* together from a few tokens.                                              *)

\* all concatenations of at most n members of the set of strings S
Strings(S, n) == {Concat(q) : q \in SeqsUpTo(S, n)}

\* the state after  let mut it = CpuInfo::from(t).cpus(); let cpu = it.next();
\* for a text t that has a block: the caller holds the first block
Holding(t, how) ==
    /\ text = t
    /\ iter = [pos |-> 2, done |-> FALSE]
    /\ yielded = <<cpus(t)[1]>>
    /\ cur = Some(cpus(t)[1])
    /\ raw = Blocks(t)[1]
    /\ op = "next" /\ arg = None /\ ret = Some(cpus(t)[1])
    /\ outcome = "returned"
    /\ input = how

\* the caller holds the block of the text that has this one field
HoldingField(key, value) ==
    LET line == key \o <<"\t", ":", " ">> \o value
    IN  Holding(FileText(<< <<line>> >>, 0, 0),
                [blocks |-> << <<line>> >>, lead |-> 0, trail |-> 0,
                 key |-> key, value |-> value])

(* Decimal-integer fields. *)

MaxIntTokens == 2

S_usizeMaxHead ==
    <<"1","8","4","4","6","7","4","4","0","7","3","7","0","9","5","5","1","6","1">>

InitInt ==
    LET tokens == { <<"+">>, <<"-">>, <<"0">>, <<"5">>, <<"6">>, <<"2", "5">>, <<"x">>,
                    S_usizeMaxHead }
        keys == { K_processor, K_cpu_family, K_model, K_stepping, K_physical_id, K_siblings,
                  K_core_id, K_cpu_cores, K_apicid, K_initial_apicid, K_cpuid_level,
                  K_clflush_size, K_cache_alignment }
    IN  \E value \in Strings(tokens, MaxIntTokens), key \in keys : HoldingField(key, value)

NextInt ==
    \/ Processor
    \/ CpuFamily
    \/ Model
    \/ Stepping
    \/ PhysicalId
    \/ Siblings
    \/ CoreId
    \/ CpuCores
    \/ Apicid
    \/ InitialApicid
    \/ CpuidLevel
    \/ ClflushSize
    \/ CacheAlignment

SpecInt == InitInt /\ [][NextInt]_vars

(* The cache size field. *)

MaxCacheTokens == 3

\* 2^54: times 1024 it is 2^64, one more than usize::MAX
S_2pow54 == <<"1","8","0","1","4","3","9","8","5","0","9","4","8","1","9","8","4">>

InitCache ==
    LET tokens == { <<"3">>, S_2pow54, <<" ">>, S_B, S_KB, S_MB, S_GB, <<"x">> }
    IN  \E value \in Strings(tokens, MaxCacheTokens), key \in {K_cache_size, K_cache_alignment} :
            HoldingField(key, value)

SpecCache == InitCache /\ [][CacheSize]_vars

(* The microcode field. *)

MaxHexTokens == 3

InitHex ==
    LET \* usize::MAX in base 16
        max == <<"f","f","f","f","f","f","f","f","f","f","f","f","f","f","f","f">>
        tokens == { S_0x, <<"2", "c">>, <<"1", "F">>, max, <<"0">>, <<"4">>, <<"g">>, <<"+">> }
    IN  \E value \in Strings(tokens, MaxHexTokens), key \in {K_microcode, K_model} :
            HoldingField(key, value)

SpecHex == InitHex /\ [][Microcode]_vars

(* The fpu, fpu_exception and wp fields. *)

MaxBoolTokens == 2

InitBool ==
    LET tokens == { S_yes, <<"n", "o">>, <<" ">>, <<"Y">> }
    IN  \E value \in Strings(tokens, MaxBoolTokens), key \in {K_fpu, K_fpu_exception, K_wp} :
            HoldingField(key, value)

NextBool ==
    \/ Fpu
    \/ FpuException
    \/ Wp

SpecBool == InitBool /\ [][NextBool]_vars

(* The address sizes field: a number and a suffix, repeated up to MaxRepeat *)
(* times, on each side of a separator.                                      *)

MaxRepeat == 2

\* the numbers of the test file, no number, and usize::MAX + 1
AddrNumbers == { <<>>, <<"3", "9">>, <<"4", "8">>, <<"x">>, S_usizeMaxHead \o <<"6">> }

AddrValues ==
    LET sides == {n \o Repeat(suffix, r) :
                     n \in AddrNumbers, suffix \in {S_bits_physical, S_bits_virtual},
                     r \in 0..MaxRepeat}
    IN  {lhs \o sep \o pad \o rhs : lhs \in sides, sep \in {<<",">>, <<>>},
                                    pad \in {<<" ">>, <<>>}, rhs \in sides}

InitAddr ==
    \E value \in AddrValues, key \in {K_address_sizes, K_cache_size} : HoldingField(key, value)

SpecAddr == InitAddr /\ [][AddressSizes]_vars

(* The flags, vmx flags and bugs fields: names and blanks, the empty value  *)
(* included.                                                                *)

MaxFlagTokens == 3

InitFlags ==
    LET tokens == { <<"a">>, <<" ">>, <<" ", "a">>, <<" ", "b">> }
    IN  \E value \in Strings(tokens, MaxFlagTokens), key \in {K_flags, K_vmx_flags, K_bugs} :
            HoldingField(key, value)

SpecFlags == InitFlags /\ [][Flags \/ VmxFlags \/ Bugs]_vars

----------------------------------------------------------------------------
(* Numerals, as the properties below read them: written from the number,    *)
(* not parsed from the text.                                                *)

\* <<quotient, remainder>> of a by a small divisor d, rem carried in from above
RECURSIVE DivRem(_, _, _)
DivRem(a, d, rem) ==
    IF a = <<>> THEN <<<<>>, rem>>
    ELSE LET n == Len(a)
             t == rem * LIMB + a[n]
             rest == DivRem(SubSeq(a, 1, n - 1), d, t % d)
         IN  <<Append(rest[1], t \div d), rest[2]>>

RECURSIVE DecimalDigits(_)
DecimalDigits(a) ==
    IF a = Zeros(Len(a)) THEN <<>>
    ELSE LET qr == DivRem(a, 10, 0) IN DecimalDigits(qr[1]) \o <<Digits[qr[2] + 1]>>

\* the decimal numeral of a, without leading zeros
Decimal(a) == IF a = Zeros(Len(a)) THEN <<"0">> ELSE DecimalDigits(a)

IsDigitString(s) == s # <<>> /\ \A i \in 1..Len(s) : IndexOf(Digits, s[i]) > 0

RECURSIVE StripZeros(_)
StripZeros(s) == IF Len(s) > 1 /\ Head(s) = "0" THEN StripZeros(Tail(s)) ELSE s

\* s is a string of decimal digits that denotes the number a
Denotes(s, a) == IsDigitString(s) /\ StripZeros(s) = Decimal(a)

\* s1 <= s2 for two digit strings of the same length
RECURSIVE LexLeq(_, _)
LexLeq(s1, s2) ==
    IF s1 = <<>> THEN TRUE
    ELSE IF Head(s1) # Head(s2) THEN IndexOf(Digits, Head(s1)) < IndexOf(Digits, Head(s2))
    ELSE LexLeq(Tail(s1), Tail(s2))

\* the digit string s denotes a number that is at most max
FitsIn(s, max) ==
    LET c == StripZeros(s)
        m == Decimal(max)
    IN  Len(c) < Len(m) \/ (Len(c) = Len(m) /\ LexLeq(c, m))

\* a decimal integer: digits, with or without a sign before them
IsSigned(s) == s # <<>> /\ Head(s) \in {"+", "-"}
Magnitude(s) == IF IsSigned(s) THEN Tail(s) ELSE s
IsDecimalInteger(s) == IsDigitString(Magnitude(s))
IsNegative(s) == IsDecimalInteger(s) /\ Head(s) = "-" /\ StripZeros(Tail(s)) # <<"0">>

\* s is certainly no unsigned integer of the machine: no integer, negative, or too large
FailsToParse(s) ==
    \/ ~IsDecimalInteger(s)
    \/ IsNegative(s)
    \/ ~FitsIn(Magnitude(s), USIZE_MAX)

IsHexDigit(c) == IndexOf(Digits, c) > 0 \/ IndexOf(HexLower, c) > 0 \/ IndexOf(HexUpper, c) > 0

IsHexString(s) == s # <<>> /\ \A i \in 1..Len(s) : IsHexDigit(s[i])

LowerCase(s) ==
    [i \in 1..Len(s) |-> IF IndexOf(HexUpper, s[i]) > 0 THEN HexLower[IndexOf(HexUpper, s[i])] ELSE s[i]]

RECURSIVE HexDigits(_)
HexDigits(a) ==
    IF a = Zeros(Len(a)) THEN <<>>
    ELSE LET qr == DivRem(a, 16, 0)
         IN  HexDigits(qr[1]) \o <<(Digits \o HexLower)[qr[2] + 1]>>

\* the base-16 numeral of a, in lower case, without leading zeros
Hexadecimal(a) == IF a = Zeros(Len(a)) THEN <<"0">> ELSE HexDigits(a)

\* s is a string of hexadecimal digits that denotes the number a
HexDenotes(s, a) == IsHexString(s) /\ LowerCase(StripZeros(s)) = Hexadecimal(a)

----------------------------------------------------------------------------
(* Properties. *)

\* the text is N blocks with one blank line between them, and at most one
\* blank line after the last (a text without blocks is the empty text)
WellFormedFile ==
    /\ input.lead = 0
    /\ input.trail <= 1
    /\ (input.blocks = <<>> => input.trail = 0)

\* C1: on a text of N non-empty blocks separated by exactly one blank line,
\* optionally ending with one blank line, the iterator of cpus() yields the
\* parse of the 1st, 2nd, ... block in document order, and when it is
\* exhausted it has yielded exactly N blocks.
C1_BlocksInDocumentOrder ==
    WellFormedFile =>
        /\ Len(yielded) <= Len(input.blocks)
        /\ \A k \in 1..Len(yielded) : yielded[k] = Cpu_from_str(BlockText(input.blocks[k]))
        /\ (iter.done => Len(yielded) = Len(input.blocks))

C1_Witness ==
    /\ WellFormedFile
    /\ input.trail = 1
    /\ Len(input.blocks) = MaxBlocks
    /\ iter.done
    /\ Len(yielded) = MaxBlocks
    /\ yielded[1] # yielded[2]

\* block k of the text has a processor field that denotes index
ProcessorIs(c, index) ==
    /\ K_processor \in DOMAIN c
    /\ \/ Denotes(c[K_processor], index)
       \/ /\ c[K_processor] # <<>>
          /\ Head(c[K_processor]) = "+"
          /\ Denotes(Tail(c[K_processor]), index)

\* C2: cpu(i) returns the first block in document order whose processor field
\* parses to i, at whatever position it stands; blocks whose processor field is
\* missing or unparsable are passed over; the result is absent iff no block's
\* processor field parses to i.
C2_CpuAtFindsFirstMatch ==
    op = "cpu" =>
        LET cs == cpus(text)
            hits == {k \in 1..Len(cs) : ProcessorIs(cs[k], arg[1])}
        IN  /\ (hits = {} <=> ret = None)
            /\ hits # {} => ret = Some(cs[CHOOSE k \in hits : \A j \in hits : k <= j])

\* cpu(0) finds the second block of the text, after passing over a block whose
\* processor field does not parse
C2_Witness ==
    /\ op = "cpu" /\ arg = Some(Usize(0))
    /\ input.blocks = << <<L_procX, L_vendor>>, <<L_proc0, L_vendor>> >>
    /\ ret = Some(Cpu_from_str(BlockText(<<L_proc0, L_vendor>>)))

\* the lines of the block the caller holds, as the text shows them
RawLines == Split(raw, <<NL>>)

HasColon(l) == Find(l, <<":">>) > 0
KeyPart(l) == SubSeq(l, 1, Find(l, <<":">>) - 1)
ValuePart(l) == Drop(l, Find(l, <<":">>))

\* the lines of the block whose trimmed key is key
LinesWithKey(key) == {i \in 1..Len(RawLines) : HasColon(RawLines[i]) /\ Trim(KeyPart(RawLines[i])) = key}

\* C3 as stated: for every line "K: V" of the block's raw text, get(trim(K))
\* returns exactly trim(V).
C3_EveryLineRoundTrips ==
    op = "get" =>
        \A i \in LinesWithKey(arg[1]) : ret = Some(Trim(ValuePart(RawLines[i])))

\* C3, amended: for every line "K: V" of the block's raw text that no later
\* line of the block repeats the trimmed key of, get(trim(K)) returns exactly
\* trim(V).
C3_LastLineRoundTrips ==
    op = "get" =>
        \A i \in LinesWithKey(arg[1]) :
            (\A j \in LinesWithKey(arg[1]) : j <= i) => ret = Some(Trim(ValuePart(RawLines[i])))

\* get("k") on a block whose line has a padded key and a value with a colon
C3_Witness ==
    /\ op = "get" /\ arg = Some(<<"k">>)
    /\ input.blocks = << << <<" ", "k", "\t", ":">>, <<"k", ":", "v", ":", "w">> >> >>
    /\ ret = Some(<<"v", ":", "w">>)

\* the field a string accessor reads
StringField ==
    CASE op = "get" -> arg[1]
      [] op = "vendor_id" -> K_vendor_id
      [] op = "model_name" -> K_model_name
      [] op = "power_management" -> K_power_management

\* C10: for get() and the string accessors power_management, vendor_id and
\* model_name, the result is absent iff no line of the block has the key, and
\* when the line that gives the key its value has nothing after the colon the
\* result is the present empty string.
C10_EmptyIsPresent ==
    op \in {"get", "vendor_id", "model_name", "power_management"} =>
        LET hits == LinesWithKey(StringField)
        IN  /\ (ret = None <=> hits = {})
            /\ \A i \in hits :
                  ((\A j \in hits : j <= i) /\ ValuePart(RawLines[i]) = <<>>) => ret = Some(<<>>)

\* power_management() on the line "power management:" of the test file
C10_Witness ==
    /\ op = "power_management"
    /\ input.blocks = << <<L_vendor, L_pm>> >>
    /\ ret = Some(<<>>)

IntOps ==
    { "processor", "cpu_family", "model", "stepping", "physical_id", "siblings", "core_id",
      "cpu_cores", "apicid", "initial_apicid", "cpuid_level", "clflush_size", "cache_alignment" }

\* the field each decimal-integer accessor reads
IntField ==
    CASE op = "processor" -> K_processor
      [] op = "cpu_family" -> K_cpu_family
      [] op = "model" -> K_model
      [] op = "stepping" -> K_stepping
      [] op = "physical_id" -> K_physical_id
      [] op = "siblings" -> K_siblings
      [] op = "core_id" -> K_core_id
      [] op = "cpu_cores" -> K_cpu_cores
      [] op = "apicid" -> K_apicid
      [] op = "initial_apicid" -> K_initial_apicid
      [] op = "cpuid_level" -> K_cpuid_level
      [] op = "clflush_size" -> K_clflush_size
      [] op = "cache_alignment" -> K_cache_alignment

\* the largest number each accessor can return: 255 for cpu family
IntMax == IF op = "cpu_family" THEN Usize(255) ELSE USIZE_MAX

\* C6: each decimal-integer accessor returns n when the key is present and its
\* trimmed value is a string of decimal digits denoting an n within the
\* accessor's range; it returns absent when the key is missing, and when the
\* value is not a decimal integer in that range: not an integer at all (empty,
\* non-numeric), negative, or too large.
C6_DecimalAccessors ==
    op \in IntOps =>
        IF IntField \notin DOMAIN cur[1] THEN ret = None
        ELSE LET v == cur[1][IntField]
             IN  /\ (IsDigitString(v) /\ FitsIn(v, IntMax)) => (ret # None /\ Denotes(v, ret[1]))
                 /\ ~IsDecimalInteger(v) => ret = None
                 /\ IsNegative(v) => ret = None
                 /\ (IsDecimalInteger(v) /\ ~FitsIn(Magnitude(v), IntMax)) => ret = None

\* cpu_family() on the largest value of its range
C6_Witness ==
    /\ op = "cpu_family"
    /\ input.key = K_cpu_family
    /\ input.value = <<"2", "5", "5">>
    /\ ret = Some(Usize(255))

\* C4: no typed accessor ever fails fatally: every call completes and returns
\* a value or absent; in particular cache_size() completes normally when the
\* number times the unit multiplier exceeds the largest unsigned integer.
C4_NoAccessorAborts == outcome = "returned"

\* r is the number that the digit string s denotes, times 1024^k
RECURSIVE IsTimes1024(_, _, _)
IsTimes1024(r, s, k) ==
    IF k = 0 THEN Denotes(s, r)
    ELSE LET qr == DivRem(r, 1024, 0) IN qr[2] = 0 /\ IsTimes1024(qr[1], s, k - 1)

\* the power of 1024 that a unit stands for
UnitPower(unit) ==
    CASE unit = S_B -> 0
      [] unit = S_KB -> 1
      [] unit = S_MB -> 2
      [] unit = S_GB -> 3

\* C5: cache_size() returns the size in bytes: on "<N> <UNIT>", with N any
\* unsigned integer the field can hold, N for B, N*1024 for KB, N*1024^2 for
\* MB and N*1024^3 for GB; a bare number is returned unchanged; an
\* unrecognized unit or a non-numeric N gives absent.
C5_CacheSizeInBytes ==
    (op = "cache_size" /\ K_cache_size \in DOMAIN cur[1]) =>
        LET v == cur[1][K_cache_size]
            sp == Find(v, <<" ">>)
            n == SubSeq(v, 1, sp - 1)
            unit == Drop(v, sp)
        IN  IF sp = 0
            THEN (IsDigitString(v) /\ FitsIn(v, USIZE_MAX)) => (ret # None /\ Denotes(v, ret[1]))
            ELSE /\ (IsDigitString(n) /\ FitsIn(n, USIZE_MAX) /\ unit \in {S_B, S_KB, S_MB, S_GB})
                      => (ret # None /\ IsTimes1024(ret[1], n, UnitPower(unit)))
                 /\ unit \notin {S_B, S_KB, S_MB, S_GB} => ret = None
                 /\ ~IsDecimalInteger(n) => ret = None

\* the digits of a microcode value: what follows its "0x" prefix, a sign aside
MicrocodeDigits(v) ==
    LET d == IF StartsWith(v, <<"0", "x">>) THEN Drop(v, 2) ELSE v
    IN  IF d # <<>> /\ Head(d) = "+" THEN Tail(d) ELSE d

\* C7 as stated: microcode() on a value of the form "0x" followed by
\* hexadecimal digits returns the base-16 value of those digits; a missing key
\* or a value whose digits are not hexadecimal gives absent.
C7_MicrocodeHex ==
    op = "microcode" =>
        IF K_microcode \notin DOMAIN cur[1] THEN ret = None
        ELSE LET v == cur[1][K_microcode]
             IN  /\ (StartsWith(v, <<"0", "x">>) /\ IsHexString(Drop(v, 2)))
                      => (ret # None /\ HexDenotes(Drop(v, 2), ret[1]))
                 /\ (\E i \in 1..Len(MicrocodeDigits(v)) : ~IsHexDigit(MicrocodeDigits(v)[i]))
                      => ret = None

\* v without any "0x" at its start
RECURSIVE Without0x(_)
Without0x(v) ==
    IF Len(v) >= 2 /\ v[1] = "0" /\ v[2] = "x" THEN Without0x(Drop(v, 2)) ELSE v

\* the hexadecimal digit string s denotes a number of at most 64 bits
FitsInHex(s) == Len(StripZeros(s)) <= 2 * USIZE_BYTES

\* C7, amended: microcode() on a value of the form "0x" followed by
\* hexadecimal digits returns the base-16 value of those digits when that
\* value fits the unsigned machine integer and absent when it does not; a
\* missing key, or a value that has a character other than a hexadecimal digit
\* once every "0x" at its start and then one plus sign are removed, gives absent.
C7_MicrocodeHexInRange ==
    op = "microcode" =>
        IF K_microcode \notin DOMAIN cur[1] THEN ret = None
        ELSE LET v == cur[1][K_microcode]
                 digits == Drop(v, 2)
                 rest == LET r == Without0x(v)
                         IN  IF r # <<>> /\ Head(r) = "+" THEN Tail(r) ELSE r
             IN  /\ (StartsWith(v, <<"0", "x">>) /\ IsHexString(digits) /\ FitsInHex(digits))
                      => (ret # None /\ HexDenotes(digits, ret[1]))
                 /\ (StartsWith(v, <<"0", "x">>) /\ IsHexString(digits) /\ ~FitsInHex(digits))
                      => ret = None
                 /\ (\E i \in 1..Len(rest) : ~IsHexDigit(rest[i])) => ret = None

\* microcode() on the largest value that fits, written with a leading zero
C7_Witness ==
    /\ op = "microcode"
    /\ input.key = K_microcode
    /\ input.value = <<"0", "x", "0", "f","f","f","f","f","f","f","f","f","f","f","f","f","f","f","f">>
    /\ ret = Some(USIZE_MAX)

\* the field each boolean accessor reads
BoolField ==
    CASE op = "fpu" -> K_fpu
      [] op = "fpu_exception" -> K_fpu_exception
      [] op = "wp" -> K_wp

\* C8: for fpu(), fpu_exception() and wp(), the result is absent iff the key is
\* missing; when the key is present the result is true iff the trimmed value
\* is exactly "yes", and false for any other string.
C8_BooleanAccessors ==
    op \in {"fpu", "fpu_exception", "wp"} =>
        /\ (ret = None <=> BoolField \notin DOMAIN cur[1])
        /\ BoolField \in DOMAIN cur[1] => ret = Some(cur[1][BoolField] = <<"y", "e", "s">>)

\* wp() on a value that is neither "yes" nor "no": present, and false
C8_Witness ==
    /\ op = "wp"
    /\ input.key = K_wp
    /\ input.value = <<"Y">>
    /\ ret = Some(FALSE)

\* s without one occurrence of the suffix at its end
StripOnce(s, suffix) == IF EndsWith(s, suffix) THEN SubSeq(s, 1, Len(s) - Len(suffix)) ELSE s

\* s without any occurrence of the suffix at its end
RECURSIVE StripEvery(_, _)
StripEvery(s, suffix) ==
    IF EndsWith(s, suffix) THEN StripEvery(SubSeq(s, 1, Len(s) - Len(suffix)), suffix) ELSE s

\* the value is "<P> bits physical, <V> bits virtual" for the digit strings P and V
IsAddressSizes(v, P, V) ==
    /\ IsDigitString(P) /\ FitsIn(P, USIZE_MAX)
    /\ IsDigitString(V) /\ FitsIn(V, USIZE_MAX)
    /\ v = P \o S_bits_physical \o <<",", " ">> \o V \o S_bits_virtual

\* C9 as stated: address_sizes() on "<P> bits physical, <V> bits virtual"
\* returns the pair (P, V); it returns absent when the key is missing, when the
\* value has no comma, and when either side fails to parse as an unsigned
\* integer after its suffix is stripped.
C9_AddressSizes ==
    op = "address_sizes" =>
        IF K_address_sizes \notin DOMAIN cur[1] THEN ret = None
        ELSE LET v == cur[1][K_address_sizes]
                 comma == Find(v, <<",">>)
                 lhs == Trim(SubSeq(v, 1, comma - 1))
                 rhs == Trim(Drop(v, comma))
             IN  /\ \A P, V \in AddrNumbers :
                        IsAddressSizes(v, P, V)
                            => (ret # None /\ Denotes(P, ret[1][1]) /\ Denotes(V, ret[1][2]))
                 /\ comma = 0 => ret = None
                 /\ (comma > 0 /\ FailsToParse(StripOnce(lhs, S_bits_physical))) => ret = None
                 /\ (comma > 0 /\ FailsToParse(StripOnce(rhs, S_bits_virtual))) => ret = None

\* C9, amended: address_sizes() on "<P> bits physical, <V> bits virtual"
\* returns the pair (P, V); it returns absent when the key is missing, when the
\* value has no comma, and when either side fails to parse as an unsigned
\* integer after every repetition of its suffix at its end is stripped.
C9_AddressSizesEverySuffix ==
    op = "address_sizes" =>
        IF K_address_sizes \notin DOMAIN cur[1] THEN ret = None
        ELSE LET v == cur[1][K_address_sizes]
                 comma == Find(v, <<",">>)
                 lhs == Trim(SubSeq(v, 1, comma - 1))
                 rhs == Trim(Drop(v, comma))
             IN  /\ \A P, V \in AddrNumbers :
                        IsAddressSizes(v, P, V)
                            => (ret # None /\ Denotes(P, ret[1][1]) /\ Denotes(V, ret[1][2]))
                 /\ comma = 0 => ret = None
                 /\ (comma > 0 /\ FailsToParse(StripEvery(lhs, S_bits_physical))) => ret = None
                 /\ (comma > 0 /\ FailsToParse(StripEvery(rhs, S_bits_virtual))) => ret = None

\* address_sizes() on the value of the test file
C9_Witness ==
    /\ op = "address_sizes"
    /\ input.key = K_address_sizes
    /\ input.value = <<"3", "9">> \o S_bits_physical \o <<",", " ", "4", "8">> \o S_bits_virtual
    /\ ret = Some(<<Usize(39), Usize(48)>>)

\* C17: microcode() does not require the "0x" prefix: every "0x" at the start
\* of the value is removed and what remains is parsed in base 16, so "2c",
\* "0x2c" and "0x0x2c" all give 44 and "44" gives 68.
C17_MicrocodeEveryPrefix ==
    (op = "microcode" /\ K_microcode \in DOMAIN cur[1]) =>
        LET rest == Without0x(cur[1][K_microcode])
        IN  /\ (IsHexString(rest) /\ FitsInHex(rest)) => (ret # None /\ HexDenotes(rest, ret[1]))
            /\ (IsHexString(rest) /\ ~FitsInHex(rest)) => ret = None
            /\ rest = <<>> => ret = None

\* microcode() on "0x0x2c"
C17_Witness ==
    /\ op = "microcode"
    /\ input.key = K_microcode
    /\ input.value = <<"0", "x", "0", "x", "2", "c">>
    /\ ret = Some(Usize(44))

\* the field each set-valued accessor reads
SetField ==
    CASE op = "flags" -> K_flags
      [] op = "vmx_flags" -> K_vmx_flags
      [] op = "bugs" -> K_bugs

\* C11: for flags(), vmx_flags() and bugs(), a field that is present with an
\* empty value gives the empty set.
C11_EmptyFieldEmptySet ==
    (op \in {"flags", "vmx_flags", "bugs"} /\ SetField \in DOMAIN cur[1]) =>
        (cur[1][SetField] = <<>> => ret = {})

\* the stretches of v between one blank (or the start of v) and the next blank
\* (or the end of v)
Tokens(v) ==
    {SubSeq(v, i, j) : <<i, j>> \in
        {ij \in (1..Len(v) + 1) \X (0..Len(v)) :
            /\ ij[1] <= ij[2] + 1
            /\ ij[1] = 1 \/ v[ij[1] - 1] = " "
            /\ ij[2] = Len(v) \/ v[ij[2] + 1] = " "
            /\ \A k \in ij[1]..ij[2] : v[k] # " "}}

\* C12: for flags(), vmx_flags() and bugs(), a field that is present gives
\* exactly the set of the tokens that splitting its trimmed value at every
\* single blank yields, a repeated token being a member once; a missing key
\* gives the empty set.
C12_SetOfTokens ==
    op \in {"flags", "vmx_flags", "bugs"} =>
        IF SetField \in DOMAIN cur[1] THEN ret = Tokens(cur[1][SetField]) ELSE ret = {}

\* flags() on "a a b": the repeated token is a member once
C12_Witness ==
    /\ op = "flags"
    /\ input.key = K_flags
    /\ input.value = <<"a", " ", "a", " ", "b">>
    /\ ret = {<<"a">>, <<"b">>}

\* C16: leading and trailing blank regions of the text produce no block: for
\* a text of N non-empty blocks separated by one blank line, preceded and
\* followed by any number of newline characters, cpus() yields exactly N
\* blocks.
C16_BlankRegionsYieldNoBlock ==
    /\ Len(yielded) <= Len(input.blocks)
    /\ iter.done => Len(yielded) = Len(input.blocks)

\* C14: the mapping of a block has an entry for a line iff the line has a
\* colon: its keys are the trimmed texts before the first colon of the lines
\* that have one, and the value of a key is the trimmed text after the first
\* colon (further colons included) of a line with that key; lines without a
\* colon, blank lines included, add no entry.
C14_EntryPerColonLine ==
    cur # None =>
        LET colon == {i \in 1..Len(RawLines) : HasColon(RawLines[i])}
        IN  /\ DOMAIN cur[1] = {Trim(KeyPart(RawLines[i])) : i \in colon}
            /\ \A key \in DOMAIN cur[1] :
                  \E i \in colon : /\ Trim(KeyPart(RawLines[i])) = key
                                   /\ cur[1][key] = Trim(ValuePart(RawLines[i]))

\* the block of a blank line and the line "k:v:w"
C14_Witness ==
    /\ cur # None
    /\ input.blocks = << << <<>>, <<"k", ":", "v", ":", "w">> >> >>
    /\ DOMAIN cur[1] = {<<"k">>}
    /\ cur[1][<<"k">>] = <<"v", ":", "w">>

\* C15: when several lines of one block have the same trimmed key, the mapping
\* holds one entry for that key and get(key) returns the trimmed value of the
\* last such line of the block.
C15_LastOfRepeatedKeyWins ==
    op = "get" =>
        LET hits == LinesWithKey(arg[1])
        IN  (\E i, j \in hits : i < j) =>
                LET last == CHOOSE i \in hits : \A j \in hits : j <= i
                IN  /\ arg[1] \in DOMAIN cur[1]
                    /\ cur[1][arg[1]] = Trim(ValuePart(RawLines[last]))
                    /\ ret = Some(Trim(ValuePart(RawLines[last])))

\* get("k") on the block of the lines "k:v" and "k: w"
C15_Witness ==
    /\ op = "get" /\ arg = Some(<<"k">>)
    /\ input.blocks = << << <<"k", ":", "v">>, <<"k", ":", " ", "w">> >> >>
    /\ ret = Some(<<"w">>)

\* C13: no operation changes observable state: whatever calls were made
\* before, enumerations left part-way included, the text is the one the table
\* was made from, an enumeration yields the blocks of that text from its
\* start and all of them when it ends, the block the caller holds is a block
\* of that text as first parsed, and the result of cpu(i), of get() and of an
\* accessor is the one the call has on that text and on that block.
C13_NoHiddenState ==
    LET original == FileText(input.blocks, input.lead, input.trail)
        all == cpus(original)
    IN  /\ text = original
        /\ Len(yielded) <= Len(all)
        /\ yielded = SubSeq(all, 1, Len(yielded))
        /\ iter.done => yielded = all
        /\ cur # None => \E k \in 1..Len(all) : cur[1] = all[k] /\ raw = Blocks(original)[k]
        /\ op = "cpu" => ret = cpu(original, arg[1])
        /\ op \in {"get", "vendor_id", "model_name", "power_management"}
              => ret = get(Cpu_from_str(raw), StringField)

\* a new cpus() call made while the caller holds a block of an earlier
\* enumeration
C13_Witness ==
    /\ op = "cpus"
    /\ iter = [pos |-> 1, done |-> FALSE]
    /\ yielded = <<>>
    /\ cur # None

====
